---- MODULE Spec2Model ----
(***************************************************************************)
(* The Oldland CPU simulator (src/sim/main.c): the fetch/decode/execute    *)
(* step cpu_cycle, the three instruction classes, the Lua observer hooks   *)
(* and the driver loop of main.                                            *)
(*                                                                         *)
(* A uint32_t is the pair <<hi, lo>> of its 16-bit halves (value           *)
(* hi * 2^16 + lo), so that every operation keeps the 32-bit width of the  *)
(* C code and wraps modulo 2^32.                                           *)
(***************************************************************************)
EXTENDS Integers, Sequences, FiniteSets, TLC

\* ------------------------------------------------------------------------
\* uint32_t arithmetic on <<hi, lo>> pairs
\* ------------------------------------------------------------------------

Half == 65536

U32(n) == <<n \div Half, n % Half>>

Add32(a, b) ==
  LET lo == a[2] + b[2]
      hi == a[1] + b[1] + (lo \div Half)
  IN  <<hi % Half, lo % Half>>

Not32(a) == <<(Half - 1) - a[1], (Half - 1) - a[2]>>

Sub32(a, b) == Add32(a, Add32(Not32(b), U32(1)))

RECURSIVE BitAnd(_, _, _)
BitAnd(x, y, n) ==
  IF n = 0 THEN 0
  ELSE (x % 2) * (y % 2) + 2 * BitAnd(x \div 2, y \div 2, n - 1)

And32(a, b) == <<BitAnd(a[1], b[1], 16), BitAnd(a[2], b[2], 16)>>

Or32(a, b) ==
  <<a[1] + b[1] - BitAnd(a[1], b[1], 16), a[2] + b[2] - BitAnd(a[2], b[2], 16)>>

Xor32(a, b) ==
  <<a[1] + b[1] - 2 * BitAnd(a[1], b[1], 16),
    a[2] + b[2] - 2 * BitAnd(a[2], b[2], 16)>>

\* a << n and a >> n for a shift count 0 <= n <= 31
Shl32(a, n) ==
  IF n >= 16
  THEN <<(a[2] * 2^(n - 16)) % Half, 0>>
  ELSE <<(a[1] * 2^n + ((a[2] * 2^n) \div Half)) % Half, (a[2] * 2^n) % Half>>

Shr32(a, n) ==
  IF n >= 16
  THEN <<0, a[1] \div 2^(n - 16)>>
  ELSE <<a[1] \div 2^n, (a[2] \div 2^n) + (a[1] % 2^n) * 2^(16 - n)>>

\* A shift count of 32 or more is undefined in C.  The builds differ: the
\* count is reduced modulo 32 (x86 shl/shr), or the operand is shifted out
\* entirely.  ShiftUB names the outcomes; the step draws one of them.
ShiftUB == {"masked", "gone"}

ShiftCountOk(op2) == op2[1] = 0 /\ op2[2] < 32

ShlC(a, op2, ub) ==
  IF ShiftCountOk(op2) \/ ub = "masked" THEN Shl32(a, op2[2] % 32) ELSE U32(0)

ShrC(a, op2, ub) ==
  IF ShiftCountOk(op2) \/ ub = "masked" THEN Shr32(a, op2[2] % 32) ELSE U32(0)

\* ------------------------------------------------------------------------
\* enum sim_status, instruction_class, arith_opcode, branch_opcode, ls_opcode
\* ------------------------------------------------------------------------

SIM_SUCCESS == <<65535, 65535>>
SIM_FAIL == <<65535, 65534>>
SIM_CONTINUE == <<0, 0>>

INSTR_ARITHMETIC == 0
INSTR_BRANCH == 1
INSTR_LDR_STR == 2

ARITH_ADD == 0
ARITH_ADDC == 1
ARITH_SUB == 2
ARITH_SUBC == 3
ARITH_LSL == 4
ARITH_LSR == 5
ARITH_AND == 6
ARITH_XOR == 7
ARITH_BIC == 8
ARITH_OR == 9
ARITH_MOVHI == 10

BRANCH_CALL == 0
BRANCH_RET == 1
BRANCH_B == 4
BRANCH_BNE == 5
BRANCH_BEQ == 6
BRANCH_BGT == 7

LS_LDR32 == 0
LS_LDR16 == 1
LS_LDR8 == 2
LS_STR32 == 4
LS_STR16 == 5
LS_STR8 == 6

\* ------------------------------------------------------------------------
\* instruction field accessors
\* ------------------------------------------------------------------------

instr_class(instr) == (instr[1] \div 16384) % 4

arith_opc(instr) == (instr[1] \div 1024) % 16

branch_opc(instr) == (instr[1] \div 1024) % 16

ls_opc(instr) == (instr[1] \div 1024) % 16

instr_rd(instr) == (instr[2] \div 64) % 8

instr_ra(instr) == (instr[2] \div 8) % 8

instr_rb(instr) == instr[2] % 8

\* (instr >> 10) & 0xffff, a uint16_t
instr_imm16(instr) == (instr[1] % 1024) * 64 + (instr[2] \div 1024)

\* instr & 0xffffff, a uint32_t
instr_imm24(instr) == <<instr[1] % 256, instr[2]>>

\* instr & (1 << 9) and instr & (1 << 25), as truth values
Bit9(instr) == (instr[2] \div 512) % 2 = 1

Bit25(instr) == (instr[1] \div 512) % 2 = 1

\* ------------------------------------------------------------------------
\* The address space: mem_map_new, ram_init, debug_uart_init, mem_map_read
\* and mem_map_write.  new_cpu maps RAM at 0 and the debug UART at
\* 0x80000000.  The RAM content is a function from the byte addresses that
\* hold a nonzero byte to that byte; every other RAM byte is 0.
\* ------------------------------------------------------------------------

RamSize == 65536
UART_BASE == <<32768, 0>>
UartSize == 4096

Bytes(nr_bits) == nr_bits \div 8

InRam(addr, nr_bits) == addr[1] = 0 /\ addr[2] + Bytes(nr_bits) <= RamSize

InUart(addr, nr_bits) ==
  addr[1] = UART_BASE[1] /\ addr[2] + Bytes(nr_bits) <= UartSize

Aligned(addr, nr_bits) == addr[2] % Bytes(nr_bits) = 0

RamByte(m, a) == IF a \in DOMAIN m THEN m[a] ELSE 0

RamStore(m, a, b) ==
  IF b = 0
  THEN [x \in (DOMAIN m) \ {a} |-> m[x]]
  ELSE [x \in (DOMAIN m) \cup {a} |-> IF x = a THEN b ELSE m[x]]

\* little-endian value of the nr_bits at RAM offset a
RamLoad(m, a, nr_bits) ==
  CASE nr_bits = 8 -> <<0, RamByte(m, a)>>
    [] nr_bits = 16 -> <<0, RamByte(m, a) + 256 * RamByte(m, a + 1)>>
    [] OTHER -> <<RamByte(m, a + 2) + 256 * RamByte(m, a + 3),
                  RamByte(m, a) + 256 * RamByte(m, a + 1)>>

\* A read of the device region returns what the device answers: dev.
mem_map_read(m, addr, nr_bits, dev) ==
  IF InRam(addr, nr_bits)
  THEN IF Aligned(addr, nr_bits)
       THEN [err |-> FALSE, v |-> RamLoad(m, addr[2], nr_bits)]
       ELSE [err |-> TRUE, v |-> U32(0)]
  ELSE IF InUart(addr, nr_bits)
       THEN [err |-> FALSE, v |-> U32(dev)]
       ELSE [err |-> TRUE, v |-> U32(0)]

\* A write to the device region is taken by the device; RAM is untouched.
mem_map_write(m, addr, nr_bits, val) ==
  IF InRam(addr, nr_bits)
  THEN IF Aligned(addr, nr_bits)
       THEN [err |-> FALSE,
             mem |-> CASE nr_bits = 8 -> RamStore(m, addr[2], val[2] % 256)
                       [] nr_bits = 16 ->
                            RamStore(RamStore(m, addr[2], val[2] % 256),
                                     addr[2] + 1, val[2] \div 256)
                       [] OTHER ->
                            RamStore(RamStore(RamStore(RamStore(m,
                              addr[2], val[2] % 256),
                              addr[2] + 1, val[2] \div 256),
                              addr[2] + 2, val[1] % 256),
                              addr[2] + 3, val[1] \div 256)]
       ELSE [err |-> TRUE, mem |-> m]
  ELSE IF InUart(addr, nr_bits)
       THEN [err |-> FALSE, mem |-> m]
       ELSE [err |-> TRUE, mem |-> m]

\* ------------------------------------------------------------------------
\* struct cpu and its accessors
\* ------------------------------------------------------------------------

Regs == 0..7

\* calloc(1, sizeof(*c)): every field of struct cpu is 0
new_cpu ==
  [pc |-> U32(0), next_pc |-> U32(0), regs |-> [r \in Regs |-> U32(0)],
   z |-> 0, c |-> 0]

\* Mutant: the value lands in the register after the one named.
cpu_wr_reg_NextReg(cpu, r, v) == [cpu EXCEPT !.regs[(r + 1) % 8] = v]

cpu_wr_reg(cpu, r, v) == [cpu EXCEPT !.regs[r] = v]

cpu_set_next_pc(cpu, v) == [cpu EXCEPT !.next_pc = v]

\* ------------------------------------------------------------------------
\* emul_arithmetic
\* ------------------------------------------------------------------------

\* Mutant: the immediate is sign-extended from 16 bits.
ArithOp2_SignExtended(cpu, instr) ==
  IF Bit9(instr)
  THEN cpu.regs[instr_rb(instr)]
  ELSE <<IF instr_imm16(instr) >= 32768 THEN 65535 ELSE 0, instr_imm16(instr)>>

\* op2 = (instr & (1 << 9)) ? c->regs[rb] : imm16
ArithOp2(cpu, instr) ==
  IF Bit9(instr) THEN cpu.regs[instr_rb(instr)] ELSE U32(instr_imm16(instr))

ArithImplemented ==
  {ARITH_ADD, ARITH_SUB, ARITH_LSL, ARITH_LSR, ARITH_AND, ARITH_XOR,
   ARITH_BIC, ARITH_OR, ARITH_MOVHI}

\* Mutant: BIC clears every bit that is set in the second operand.
ArithResult_BicMask(cpu, instr, ub) ==
  LET a == cpu.regs[instr_ra(instr)]
      op2 == ArithOp2(cpu, instr)
      opc == arith_opc(instr)
  IN  CASE opc = ARITH_ADD -> Add32(a, op2)
        [] opc = ARITH_SUB -> Sub32(a, op2)
        [] opc = ARITH_LSL -> ShlC(a, op2, ub)
        [] opc = ARITH_LSR -> ShrC(a, op2, ub)
        [] opc = ARITH_AND -> And32(a, op2)
        [] opc = ARITH_XOR -> Xor32(a, op2)
        [] opc = ARITH_BIC -> And32(a, Not32(op2))
        [] opc = ARITH_OR -> Or32(a, op2)
        [] opc = ARITH_MOVHI -> Shl32(op2, 16)

\* the value handed to cpu_wr_reg by the case of the switch
ArithResult(cpu, instr, ub) ==
  LET a == cpu.regs[instr_ra(instr)]
      op2 == ArithOp2(cpu, instr)
      opc == arith_opc(instr)
  IN  CASE opc = ARITH_ADD -> Add32(a, op2)
        [] opc = ARITH_SUB -> Sub32(a, op2)
        [] opc = ARITH_LSL -> ShlC(a, op2, ub)
        [] opc = ARITH_LSR -> ShrC(a, op2, ub)
        [] opc = ARITH_AND -> And32(a, op2)
        [] opc = ARITH_XOR -> Xor32(a, op2)
        [] opc = ARITH_BIC -> And32(a, Not32(ShlC(U32(1), op2, ub)))
        [] opc = ARITH_OR -> Or32(a, op2)
        [] opc = ARITH_MOVHI -> Shl32(op2, 16)

\* Mutant: Z is taken from operand register A instead of the destination.
ArithFlags_FromRa(cpu, instr) ==
  IF arith_opc(instr) # ARITH_MOVHI
  THEN [cpu EXCEPT !.z = IF cpu.regs[instr_ra(instr)] = U32(0) THEN 1 ELSE 0]
  ELSE cpu

\* Mutant: ADD sets C when the sum has wrapped below the second operand.
ArithFlags_AddCarry(cpu, instr) ==
  LET d == cpu.regs[instr_rd(instr)]
      op2 == ArithOp2(cpu, instr)
      wrapped == d[1] < op2[1] \/ (d[1] = op2[1] /\ d[2] < op2[2])
      f == IF arith_opc(instr) # ARITH_MOVHI
           THEN [cpu EXCEPT !.z = IF d = U32(0) THEN 1 ELSE 0]
           ELSE cpu
  IN  IF arith_opc(instr) = ARITH_ADD /\ wrapped THEN [f EXCEPT !.c = 1] ELSE f

\* Mutant: Z is recomputed after MOVHI as well.
ArithFlags_MovhiToo(cpu, instr) ==
  [cpu EXCEPT !.z = IF cpu.regs[instr_rd(instr)] = U32(0) THEN 1 ELSE 0]

\* c->z = !c->regs[rd], for every opcode but MOVHI
ArithFlags(cpu, instr) ==
  IF arith_opc(instr) # ARITH_MOVHI
  THEN [cpu EXCEPT !.z = IF cpu.regs[instr_rd(instr)] = U32(0) THEN 1 ELSE 0]
  ELSE cpu

emul_arithmetic(cpu, instr, ub) ==
  IF arith_opc(instr) \in ArithImplemented
  THEN [cpu |-> ArithFlags(cpu_wr_reg(cpu, instr_rd(instr),
                                      ArithResult(cpu, instr, ub)), instr),
        died |-> FALSE]
  ELSE [cpu |-> cpu, died |-> TRUE]

\* ------------------------------------------------------------------------
\* emul_branch
\* ------------------------------------------------------------------------

\* Mutant: the 24-bit immediate is used without sign extension.
SignExtend24_None(imm24) == imm24

\* imm24 <<= 8; imm24 >>= 8 on an int32_t: bit 23 is copied into bits 31..24
SignExtend24(imm24) ==
  IF imm24[1] >= 128 THEN <<imm24[1] + 65280, imm24[2]>> ELSE imm24

\* target = (instr & (1 << 25)) ? rb : c->pc + (imm24 << 2)
BranchTarget(cpu, instr) ==
  IF Bit25(instr)
  THEN U32(instr_rb(instr))
  ELSE Add32(cpu.pc, Shl32(SignExtend24(instr_imm24(instr)), 2))

\* Mutant: BNE is executed (taken when Z is clear) instead of being refused.
emul_branch_Bne(cpu, instr) ==
  CASE branch_opc(instr) = BRANCH_B ->
         [cpu |-> cpu_set_next_pc(cpu, BranchTarget(cpu, instr)), died |-> FALSE]
    [] branch_opc(instr) = BRANCH_BEQ ->
         [cpu |-> IF cpu.z = 1
                  THEN cpu_set_next_pc(cpu, BranchTarget(cpu, instr))
                  ELSE cpu,
          died |-> FALSE]
    [] branch_opc(instr) = BRANCH_BNE ->
         [cpu |-> IF cpu.z = 0
                  THEN cpu_set_next_pc(cpu, BranchTarget(cpu, instr))
                  ELSE cpu,
          died |-> FALSE]
    [] OTHER -> [cpu |-> cpu, died |-> TRUE]

\* Mutant: BEQ is taken whatever Z holds.
emul_branch_BeqAlways(cpu, instr) ==
  CASE branch_opc(instr) \in {BRANCH_B, BRANCH_BEQ} ->
         [cpu |-> cpu_set_next_pc(cpu, BranchTarget(cpu, instr)), died |-> FALSE]
    [] OTHER -> [cpu |-> cpu, died |-> TRUE]

emul_branch(cpu, instr) ==
  CASE branch_opc(instr) = BRANCH_B ->
         [cpu |-> cpu_set_next_pc(cpu, BranchTarget(cpu, instr)), died |-> FALSE]
    [] branch_opc(instr) = BRANCH_BEQ ->
         [cpu |-> IF cpu.z = 1
                  THEN cpu_set_next_pc(cpu, BranchTarget(cpu, instr))
                  ELSE cpu,
          died |-> FALSE]
    [] OTHER -> [cpu |-> cpu, died |-> TRUE]

\* ------------------------------------------------------------------------
\* emul_ldr_str, emul_insn, cpu_cycle
\*
\* A step's outcome is a record: the CPU as the step leaves it and a status,
\*   "ok"     the instruction has executed,
\*   "write"  emul_ldr_str has reached cpu_mem_map_write(c, addr, 8, val),
\*   "die"    die() was called,
\*   "assert" the assert of cpu_cycle failed,
\*   "return" cpu_cycle returned the sentinel it fetched.
\* ------------------------------------------------------------------------

\* Sign extend: imm16 <<= 16; imm16 >>= 16 on an int32_t
SignExtend16(imm16) == IF imm16 >= 32768 THEN <<65535, imm16>> ELSE <<0, imm16>>

\* Mutant: the immediate is sign-extended in base+offset mode too.
LsAddr_SignedBase(cpu, instr) ==
  IF Bit9(instr)
  THEN Add32(cpu.pc, SignExtend16(instr_imm16(instr)))
  ELSE Add32(cpu.regs[instr_ra(instr)], SignExtend16(instr_imm16(instr)))

\* the effective address of a load or store
LsAddr(cpu, instr) ==
  IF Bit9(instr)
  THEN Add32(cpu.pc, SignExtend16(instr_imm16(instr)))
  ELSE Add32(cpu.regs[instr_ra(instr)], U32(instr_imm16(instr)))

Outcome(cpu, status) ==
  [cpu |-> cpu, status |-> status, ret |-> SIM_CONTINUE, addr |-> U32(0),
   val |-> U32(0)]

\* Mutant: STR8 stores register operand A instead of register operand B.
emul_ldr_str_SrcRa(cpu, m, instr, dev) ==
  LET addr == LsAddr(cpu, instr)
      rd == mem_map_read(m, addr, 8, dev)
  IN  CASE ls_opc(instr) = LS_LDR8 ->
             IF rd.err
             THEN Outcome(cpu, "die")
             ELSE Outcome(cpu_wr_reg(cpu, instr_rd(instr), <<0, rd.v[2] % 256>>),
                          "ok")
        [] ls_opc(instr) = LS_STR8 ->
             [Outcome(cpu, "write") EXCEPT
                !.addr = addr, !.val = <<0, cpu.regs[instr_ra(instr)][2] % 256>>]
        [] OTHER -> Outcome(cpu, "die")

\* Mutant: LDR8 sets Z from the byte it has loaded.
emul_ldr_str_LoadSetsZ(cpu, m, instr, dev) ==
  LET addr == LsAddr(cpu, instr)
      rd == mem_map_read(m, addr, 8, dev)
      b == rd.v[2] % 256
  IN  CASE ls_opc(instr) = LS_LDR8 ->
             IF rd.err
             THEN Outcome(cpu, "die")
             ELSE Outcome([cpu_wr_reg(cpu, instr_rd(instr), <<0, b>>) EXCEPT
                             !.z = IF b = 0 THEN 1 ELSE 0],
                          "ok")
        [] ls_opc(instr) = LS_STR8 ->
             [Outcome(cpu, "write") EXCEPT
                !.addr = addr, !.val = <<0, cpu.regs[instr_rb(instr)][2] % 256>>]
        [] OTHER -> Outcome(cpu, "die")

\* Mutant: LDR8 sign-extends the byte it has read.
emul_ldr_str_SignExtended(cpu, m, instr, dev) ==
  LET addr == LsAddr(cpu, instr)
      rd == mem_map_read(m, addr, 8, dev)
      b == rd.v[2] % 256
  IN  CASE ls_opc(instr) = LS_LDR8 ->
             IF rd.err
             THEN Outcome(cpu, "die")
             ELSE Outcome(cpu_wr_reg(cpu, instr_rd(instr),
                                     IF b >= 128 THEN <<65535, 65280 + b>>
                                     ELSE <<0, b>>),
                          "ok")
        [] ls_opc(instr) = LS_STR8 ->
             [Outcome(cpu, "write") EXCEPT
                !.addr = addr, !.val = <<0, cpu.regs[instr_rb(instr)][2] % 256>>]
        [] OTHER -> Outcome(cpu, "die")

emul_ldr_str(cpu, m, instr, dev) ==
  LET addr == LsAddr(cpu, instr)
      rd == mem_map_read(m, addr, 8, dev)
  IN  CASE ls_opc(instr) = LS_LDR8 ->
             IF rd.err
             THEN Outcome(cpu, "die")
             ELSE Outcome(cpu_wr_reg(cpu, instr_rd(instr), <<0, rd.v[2] % 256>>),
                          "ok")
        [] ls_opc(instr) = LS_STR8 ->
             [Outcome(cpu, "write") EXCEPT
                !.addr = addr, !.val = <<0, cpu.regs[instr_rb(instr)][2] % 256>>]
        [] OTHER -> Outcome(cpu, "die")

emul_insn(cpu, m, instr, ub, dev) ==
  CASE instr_class(instr) = INSTR_ARITHMETIC ->
         LET r == emul_arithmetic(cpu, instr, ub)
         IN  Outcome(r.cpu, IF r.died THEN "die" ELSE "ok")
    [] instr_class(instr) = INSTR_BRANCH ->
         LET r == emul_branch(cpu, instr)
         IN  Outcome(r.cpu, IF r.died THEN "die" ELSE "ok")
    [] instr_class(instr) = INSTR_LDR_STR -> emul_ldr_str(cpu, m, instr, dev)
    [] OTHER -> Outcome(cpu, "die")

\* c->next_pc = c->pc + 4
StepNextPc(cpu) == [cpu EXCEPT !.next_pc = Add32(cpu.pc, U32(4))]

\* c->pc = c->next_pc
StepCommitPc(cpu) == [cpu EXCEPT !.pc = cpu.next_pc]

Fetch(cpu, m, dev) == mem_map_read(m, cpu.pc, 32, dev)

\* Mutant: only the SUCCESS word is recognised.
IsSentinel_SuccessOnly(instr) == instr = SIM_SUCCESS

IsSentinel(instr) == instr = SIM_SUCCESS \/ instr = SIM_FAIL

\* cpu_cycle up to its return, its abort, or its call of cpu_mem_map_write
cpu_cycle(cpu, m, ub, dev) ==
  LET c1 == StepNextPc(cpu)
      f == Fetch(c1, m, dev)
  IN  IF f.err THEN Outcome(c1, "assert")
      ELSE IF IsSentinel(f.v) THEN [Outcome(c1, "return") EXCEPT !.ret = f.v]
      ELSE LET r == emul_insn(c1, m, f.v, ub, dev)
           IN  IF r.status = "ok" THEN Outcome(StepCommitPc(r.cpu), "ok") ELSE r

\* ------------------------------------------------------------------------
\* The inputs: the ROM image rom.bin and the Lua test script
\* ------------------------------------------------------------------------

\* the instruction word with the given fields (the inverse of the accessors)
Enc(class, opc, imm16, m, rd, ra, rb) ==
  <<class * 16384 + opc * 1024 + (imm16 \div 64),
    (imm16 % 64) * 1024 + m * 512 + rd * 64 + ra * 8 + rb>>

EncBranch(opc, m, imm24) ==
  <<INSTR_BRANCH * 16384 + opc * 1024 + m * 512 + (imm24 \div Half),
    imm24 % Half>>

\* rd := ra <opc> imm16, and rd := ra <opc> rb
ArithI(opc, rd, ra, imm16) == Enc(INSTR_ARITHMETIC, opc, imm16, 0, rd, ra, 0)
ArithR(opc, rd, ra, rb) == Enc(INSTR_ARITHMETIC, opc, 0, 1, rd, ra, rb)

\* rd := [ra + imm16], rd := [pc + imm16], [ra + imm16] := rb, [pc + imm16] := rb
Ldr(opc, rd, ra, imm16) == Enc(INSTR_LDR_STR, opc, imm16, 0, rd, ra, 0)
LdrPc(opc, rd, imm16) == Enc(INSTR_LDR_STR, opc, imm16, 1, rd, 0, 0)
Str(opc, ra, imm16, rb) == Enc(INSTR_LDR_STR, opc, imm16, 0, 0, ra, rb)
StrPc(opc, imm16, rb) == Enc(INSTR_LDR_STR, opc, imm16, 1, 0, 0, rb)

ArithWords ==
  {ArithI(ARITH_ADD, 0, 1, 5), ArithR(ARITH_ADD, 1, 1, 1),
   ArithI(ARITH_ADD, 2, 2, 65535), ArithR(ARITH_ADD, 0, 3, 3),
   ArithI(ARITH_SUB, 0, 0, 1), ArithR(ARITH_SUB, 2, 1, 1),
   ArithI(ARITH_SUB, 1, 1, 10), ArithI(ARITH_ADDC, 0, 1, 1),
   ArithR(ARITH_SUBC, 2, 1, 1), ArithI(ARITH_LSL, 1, 1, 28),
   ArithR(ARITH_LSL, 4, 1, 2), ArithI(ARITH_LSR, 1, 1, 1),
   ArithR(ARITH_LSR, 4, 1, 2), ArithI(ARITH_LSR, 5, 3, 31),
   ArithI(ARITH_AND, 0, 1, 65535), ArithR(ARITH_AND, 1, 1, 2),
   ArithI(ARITH_XOR, 1, 1, 65535), ArithR(ARITH_XOR, 1, 1, 1),
   ArithI(ARITH_BIC, 1, 1, 3), ArithR(ARITH_BIC, 4, 1, 2),
   ArithI(ARITH_BIC, 5, 3, 31), ArithI(ARITH_OR, 2, 2, 256),
   ArithR(ARITH_OR, 0, 1, 3), ArithI(ARITH_MOVHI, 3, 0, 32768),
   ArithI(ARITH_MOVHI, 1, 1, 0), ArithR(ARITH_MOVHI, 2, 0, 1),
   ArithI(11, 0, 1, 5), ArithR(15, 1, 1, 1)}

\* every opcode value with destination = A, destination = B and a third
\* register, and with the largest immediate
ArithSweep ==
  {ArithR(o, rd, 1, 2) : o \in 0..15, rd \in {1, 2, 6}}
    \cup {ArithI(o, 1, 1, 65535) : o \in 0..15}

\* BIC R4 := R1 with every bit number
BicSweep == {ArithI(ARITH_BIC, 4, 1, n) : n \in 0..31}

BranchWords ==
  {EncBranch(BRANCH_B, 0, 16777215), EncBranch(BRANCH_B, 0, 2),
   EncBranch(BRANCH_B, 0, 0), EncBranch(BRANCH_B, 0, 8388608),
   EncBranch(BRANCH_BEQ, 0, 16777215), EncBranch(BRANCH_BEQ, 0, 2),
   EncBranch(BRANCH_B, 1, 0), EncBranch(BRANCH_B, 1, 1),
   EncBranch(BRANCH_B, 1, 4), EncBranch(BRANCH_BEQ, 1, 1),
   EncBranch(BRANCH_BEQ, 1, 4), EncBranch(BRANCH_CALL, 0, 2),
   EncBranch(BRANCH_RET, 0, 0), EncBranch(BRANCH_BNE, 0, 2),
   EncBranch(BRANCH_BGT, 1, 1), EncBranch(2, 0, 2)}

LsWords ==
  {Str(LS_STR8, 2, 256, 0), Str(LS_STR8, 2, 65535, 1), Str(LS_STR8, 1, 65535, 1),
   Str(LS_STR8, 3, 0, 1), Str(LS_STR8, 3, 4096, 1), StrPc(LS_STR8, 65535, 1),
   StrPc(LS_STR8, 4, 1), StrPc(LS_STR8, 256, 0),
   Ldr(LS_LDR8, 4, 2, 256), Ldr(LS_LDR8, 4, 2, 65535), Ldr(LS_LDR8, 1, 1, 65535),
   Ldr(LS_LDR8, 4, 3, 0), LdrPc(LS_LDR8, 5, 0), LdrPc(LS_LDR8, 5, 65535),
   LdrPc(LS_LDR8, 1, 3), Ldr(LS_LDR32, 4, 2, 256), Ldr(LS_LDR16, 4, 2, 256),
   Str(LS_STR32, 2, 256, 0), Str(LS_STR16, 2, 256, 0), Ldr(3, 4, 2, 256)}

\* class 3 words that are no sentinel
ReservedWords == {<<49152, 0>>, <<65535, 65533>>}

InstrWords ==
  ArithWords \cup ArithSweep \cup BicSweep \cup BranchWords \cup LsWords
    \cup ReservedWords

\* what the ROM runs first: the ways the programs leave the zeroed CPU
Prologues ==
  {<<>>,
   <<ArithI(ARITH_ADD, 1, 1, 10)>>,
   <<ArithI(ARITH_MOVHI, 3, 0, 32768)>>,
   <<ArithI(ARITH_SUB, 1, 1, 1)>>,
   <<ArithI(ARITH_ADD, 1, 1, 10), ArithR(ARITH_SUB, 2, 1, 1)>>,
   <<ArithI(ARITH_ADD, 1, 1, 10), ArithI(ARITH_ADD, 2, 2, 40)>>,
   <<ArithI(ARITH_XOR, 1, 1, 65535), ArithR(ARITH_MOVHI, 2, 0, 1)>>}

First ==
  {ArithI(ARITH_ADD, 0, 1, 5), ArithR(ARITH_SUB, 2, 1, 1),
   Str(LS_STR8, 2, 256, 0), StrPc(LS_STR8, 4, 1), ArithI(ARITH_OR, 2, 2, 256),
   EncBranch(BRANCH_BEQ, 0, 2)}

Second ==
  {Str(LS_STR8, 2, 256, 0), Ldr(LS_LDR8, 4, 2, 256), EncBranch(BRANCH_BEQ, 0, 16777215),
   EncBranch(BRANCH_BEQ, 1, 4), ArithR(ARITH_ADD, 1, 1, 1), ArithI(ARITH_MOVHI, 1, 1, 0)}

Bodies == {<<i>> : i \in InstrWords} \cup {<<i, j>> : i \in First, j \in Second}

Terminators == {SIM_SUCCESS, SIM_FAIL}

Programs ==
  {p \o b \o <<t>> : p \in Prologues, b \in Bodies, t \in Terminators}

\* byte k of a word in RAM (little-endian)
WordByte(w, k) ==
  CASE k = 0 -> w[2] % 256
    [] k = 1 -> w[2] \div 256
    [] k = 2 -> w[1] % 256
    [] OTHER -> w[1] \div 256

\* ram_init(c->mem, 0, 0x10000, romfile): the image is loaded at offset 0
ram_init(prog) ==
  LET B(a) == WordByte(prog[(a \div 4) + 1], a % 4)
  IN  [a \in {x \in 0..(4 * Len(prog) - 1) : B(x) # 0} |-> B(a)]

\* what a read of the debug UART may answer
DeviceReads == {0, 255}

\* the cpu_cycle calls one run may make
MaxCycles == 6

\* ------------------------------------------------------------------------
\* The debug protocol (src/debugger/protocol.h) and the Debug Control Unit.
\* The header declares the command codes, the window registers, the wire
\* structures and the execution status bits; the unit that serves them is
\* described by the design document (section 4.3) only.
\* ------------------------------------------------------------------------

\* enum dbg_cmd
CMD_STOP == 0
CMD_RUN == 1
CMD_STEP == 2
CMD_READ_REG == 3
CMD_WRITE_REG == 4
CMD_RMEM32 == 5
CMD_RMEM16 == 6
CMD_RMEM8 == 7
CMD_WMEM32 == 8
CMD_WMEM16 == 9
CMD_WMEM8 == 10
CMD_RESET == 11
CMD_CACHE_SYNC == 12
CMD_CPUID == 13
CMD_GET_EXEC_STATUS == 14

\* enum exec_status
EXEC_STATUS_RUNNING == 1
EXEC_STATUS_STOPPED_ON_BKPT == 2

\* struct dbg_response
dbg_response(status, data) == [status |-> status, data |-> data]

\* the status of a served command, and of a rejected one
DBG_OK == 0
DBG_REJECTED == -1

\* the fixed implementation identifier CPUID answers
CpuId == <<0, 1>>

\* a command as it is delivered: ADDRESS and WDATA are set, then CMD is written
dbg_command(cmd, address, wdata) ==
  [cmd |-> cmd, address |-> address, wdata |-> wdata]

\* the unit as it is created: STOPPED, nothing asked, nothing answered
new_dbg ==
  [state |-> "STOPPED",
   req |-> dbg_command(CMD_STOP, <<0, 0>>, <<0, 0>>),
   before |-> "STOPPED",
   resp |-> dbg_response(DBG_OK, <<0, 0>>),
   ncmd |-> 0,
   nresp |-> 0]

\* ------------------------------------------------------------------------
\* The state of one run of main
\* ------------------------------------------------------------------------

VARIABLES
  cpu,               \* struct cpu: pc, next_pc, regs, z, c
  mem,               \* the RAM content
  hook_defined,      \* the script defines data_write_hook
  validate_defined,  \* the script defines validate_result
  hook_calls,        \* the calls of data_write_hook so far: <<addr, nr_bits, val>>
  validate_calls,    \* the calls of validate_result so far
  err,               \* main's err: what the last cpu_cycle returned
  state,             \* where main is: "loop", "in_hook" (inside
                     \* data_write_hook), "exited", "in_validate" (inside
                     \* the script's validate_result), "done", "died" (die)
                     \* or "aborted" (assert)
  pending,           \* inside data_write_hook: the write cpu_mem_map_write holds
  printed,           \* the outcome line main has printed
  exit_status,       \* what main has returned
  cycles,            \* the cpu_cycle calls so far
  dbg                \* the Debug Control Unit: execution state, command window,
                     \* last request and response, commands and responses so far

vars ==
  <<cpu, mem, hook_defined, validate_defined, hook_calls, validate_calls, err,
    state, pending, printed, exit_status, cycles, dbg>>

Init ==
  /\ cpu = new_cpu
  /\ \E prog \in Programs : mem = ram_init(prog)
  /\ hook_defined \in BOOLEAN
  /\ validate_defined \in BOOLEAN
  /\ hook_calls = <<>>
  /\ validate_calls = 0
  /\ err = SIM_CONTINUE   \* not read before the first cpu_cycle assigns it
  /\ state = "loop"
  /\ pending = <<>>
  /\ printed = ""
  /\ exit_status = "running"
  /\ cycles = 0
  /\ dbg = new_dbg

\* ------------------------------------------------------------------------
\* The actions: one call of cpu_cycle, the return of data_write_hook, the
\* script's call of sim.err, the end of the loop of main, and the return of
\* the script's validate_result
\* ------------------------------------------------------------------------

\* return mem_map_write(c->mem, addr, nr_bits, val), then the rest of
\* emul_ldr_str and of cpu_cycle: die on an error, else pc := next_pc
StoreFinish(c, m, addr, val) ==
  LET w == mem_map_write(m, addr, 8, val)
  IN  IF w.err
      THEN /\ state' = "died"
           /\ cpu' = c
           /\ UNCHANGED <<mem, err>>
      ELSE /\ state' = "loop"
           /\ cpu' = StepCommitPc(c)
           /\ mem' = w.mem
           /\ err' = SIM_CONTINUE

\* Mutant: mem_map_write runs before data_write_hook is called.
CallHook_AfterWrite(c, addr, val) ==
  /\ hook_calls' = Append(hook_calls, <<addr, 8, val>>)
  /\ pending' = <<>>
  /\ StoreFinish(c, mem, addr, val)

\* cpu_mem_map_write up to lua_call: data_write_hook(addr, nr_bits, val) is
\* called, and the write waits for its return
CallHook(c, addr, val) ==
  /\ cpu' = c
  /\ hook_calls' = Append(hook_calls, <<addr, 8, val>>)
  /\ pending' = <<addr, 8, val>>
  /\ state' = "in_hook"
  /\ UNCHANGED <<mem, err>>

\* err = cpu_cycle(c), up to the call of data_write_hook if there is one
Cycle ==
  /\ state = "loop"
  /\ cycles < MaxCycles
  /\ cycles' = cycles + 1
  /\ \E ub \in ShiftUB, dev \in DeviceReads :
       LET r == cpu_cycle(cpu, mem, ub, dev)
       IN  CASE r.status = "ok" ->
                  /\ cpu' = r.cpu
                  /\ err' = SIM_CONTINUE
                  /\ UNCHANGED <<mem, state, hook_calls, pending>>
             [] r.status = "return" ->
                  /\ cpu' = r.cpu
                  /\ err' = r.ret
                  /\ state' = "exited"
                  /\ UNCHANGED <<mem, hook_calls, pending>>
             [] r.status = "die" ->
                  /\ cpu' = r.cpu
                  /\ state' = "died"
                  /\ UNCHANGED <<mem, err, hook_calls, pending>>
             [] r.status = "assert" ->
                  /\ cpu' = r.cpu
                  /\ state' = "aborted"
                  /\ UNCHANGED <<mem, err, hook_calls, pending>>
             [] r.status = "write" /\ hook_defined ->
                  CallHook(r.cpu, r.addr, r.val)
             [] r.status = "write" /\ ~hook_defined ->
                  /\ StoreFinish(r.cpu, mem, r.addr, r.val)
                  /\ UNCHANGED <<hook_calls, pending>>
  /\ UNCHANGED <<hook_defined, validate_defined, validate_calls, printed,
                 exit_status>>

\* lua_call(c->lua_interp, 3, 0) returns into cpu_mem_map_write
HookReturn ==
  /\ state = "in_hook"
  /\ StoreFinish(cpu, mem, pending[1], pending[3])
  /\ pending' = <<>>
  /\ UNCHANGED <<hook_defined, validate_defined, hook_calls, validate_calls,
                 printed, exit_status, cycles>>

\* lua_sim_err: the script calls sim.err inside data_write_hook or inside
\* validate_result; die() ends the run there, lua_call does not return
lua_sim_err ==
  /\ state \in {"in_hook", "in_validate"}
  /\ state' = "died"
  /\ pending' = <<>>
  /\ UNCHANGED <<cpu, mem, hook_defined, validate_defined, hook_calls,
                 validate_calls, err, printed, exit_status, cycles>>

\* lua_close(L); return err == SIM_SUCCESS ? EXIT_SUCCESS : EXIT_FAILURE
MainReturn ==
  /\ exit_status' = IF err = SIM_SUCCESS THEN "EXIT_SUCCESS" ELSE "EXIT_FAILURE"
  /\ state' = "done"

\* validate_result up to lua_call: the script's validate_result is called if
\* it is defined; if it is not, main goes on to its return
validate_result ==
  IF validate_defined
  THEN /\ validate_calls' = validate_calls + 1
       /\ state' = "in_validate"
       /\ UNCHANGED exit_status
  ELSE /\ MainReturn
       /\ UNCHANGED validate_calls

\* Mutant: validate_result is called whatever the outcome.
Report_ValidateAlways ==
  /\ state = "exited"
  /\ printed' = IF err = SIM_SUCCESS THEN "SUCCESS" ELSE "FAIL"
  /\ validate_result
  /\ UNCHANGED <<cpu, mem, hook_defined, validate_defined, hook_calls, err,
                 pending, cycles>>

\* the loop of main has ended: printf, then validate_result on success, then
\* lua_close and return
Report ==
  /\ state = "exited"
  /\ printed' = IF err = SIM_SUCCESS THEN "SUCCESS" ELSE "FAIL"
  /\ IF err = SIM_SUCCESS
     THEN validate_result
     ELSE MainReturn /\ UNCHANGED validate_calls
  /\ UNCHANGED <<cpu, mem, hook_defined, validate_defined, hook_calls, err,
                 pending, cycles>>

\* lua_call(c->lua_interp, 0, 0) returns into validate_result, and
\* validate_result into main: lua_close and return
ValidateReturn ==
  /\ state = "in_validate"
  /\ MainReturn
  /\ UNCHANGED <<cpu, mem, hook_defined, validate_defined, hook_calls,
                 validate_calls, err, pending, printed, cycles>>

\* main has no Debug Control Unit attached: its window is never written
Next ==
  \/ Cycle /\ UNCHANGED dbg
  \/ HookReturn /\ UNCHANGED dbg
  \/ lua_sim_err /\ UNCHANGED dbg
  \/ Report /\ UNCHANGED dbg
  \/ ValidateReturn /\ UNCHANGED dbg

Spec == Init /\ [][Next]_vars

\* ------------------------------------------------------------------------
\* The Debug Control Unit beside the driver (design document, section 4.3):
\* a command is served between two steps of the CPU; while the execution
\* state is RUNNING the driver steps the CPU, and a sentinel stops it.
\* ------------------------------------------------------------------------

\* the register and memory commands: valid only while execution is stopped
GatedCommands ==
  {CMD_READ_REG, CMD_WRITE_REG, CMD_RMEM32, CMD_RMEM16, CMD_RMEM8,
   CMD_WMEM32, CMD_WMEM16, CMD_WMEM8}

\* Mutant: register and memory commands are served in every execution state.
DbgAllowed_Always(cmd, st) == TRUE

\* the command may be served in execution state st
DbgAllowed(cmd, st) == cmd \notin GatedCommands \/ st # "RUNNING"

MemWidth(cmd) ==
  CASE cmd \in {CMD_RMEM32, CMD_WMEM32} -> 32
    [] cmd \in {CMD_RMEM16, CMD_WMEM16} -> 16
    [] OTHER -> 8

\* ADDRESS names one of the eight registers
IsRegIndex(address) == address[1] = 0 /\ address[2] \in Regs

\* GET_EXEC_STATUS: the bitmask of the execution state
ExecStatus(st) ==
  CASE st = "RUNNING" -> <<0, EXEC_STATUS_RUNNING>>
    [] st = "STOPPED_ON_BREAKPOINT" -> <<0, EXEC_STATUS_STOPPED_ON_BKPT>>
    [] OTHER -> <<0, 0>>

\* Mutant: RESET zeroes the register file and the PC but not the flags.
dbg_reset_KeepFlags(c) == [new_cpu EXCEPT !.z = c.z, !.c = c.c]

\* RESET: register file, PC and flags as the CPU is created
dbg_reset(c) == new_cpu

\* the command is taken from the window
Taken(d, req) ==
  [d EXCEPT !.req = req, !.before = d.state, !.ncmd = d.ncmd + 1]

\* the command is taken and its one response is given
Answer(d, req, status, data) ==
  [Taken(d, req) EXCEPT !.resp = dbg_response(status, data),
                        !.nresp = d.nresp + 1]

\* what no command but STEP touches
DriverKept ==
  UNCHANGED <<hook_defined, validate_defined, validate_calls, err, state,
              pending, printed, exit_status, cycles>>

\* a nonzero status, and nothing else changes
Reject(req) ==
  /\ dbg' = Answer(dbg, req, DBG_REJECTED, <<0, 0>>)
  /\ UNCHANGED <<cpu, mem, hook_calls>>
  /\ DriverKept

\* status 0 with the data, and nothing else changes
Reply(req, data) ==
  /\ dbg' = Answer(dbg, req, DBG_OK, data)
  /\ UNCHANGED <<cpu, mem, hook_calls>>
  /\ DriverKept

\* the write of CMD: the command is served and answered
do_command(req) ==
  CASE ~DbgAllowed(req.cmd, dbg.state) -> Reject(req)
    [] req.cmd = CMD_STOP ->
         /\ dbg' = [Answer(dbg, req, DBG_OK, <<0, 0>>) EXCEPT !.state = "STOPPED"]
         /\ UNCHANGED <<cpu, mem, hook_calls>>
         /\ DriverKept
    [] req.cmd = CMD_RUN ->
         /\ dbg' = [Answer(dbg, req, DBG_OK, <<0, 0>>) EXCEPT !.state = "RUNNING"]
         /\ UNCHANGED <<cpu, mem, hook_calls>>
         /\ DriverKept
    [] req.cmd = CMD_STEP ->
         /\ Cycle
         /\ dbg' = IF state' \in {"died", "aborted"}
                    THEN Taken(dbg, req)
                    ELSE [Answer(dbg, req, DBG_OK, <<0, 0>>) EXCEPT
                            !.state = "STOPPED"]
    [] req.cmd = CMD_READ_REG ->
         IF IsRegIndex(req.address)
         THEN Reply(req, cpu.regs[req.address[2]])
         ELSE Reject(req)
    [] req.cmd = CMD_WRITE_REG ->
         IF IsRegIndex(req.address)
         THEN /\ cpu' = cpu_wr_reg(cpu, req.address[2], req.wdata)
              /\ dbg' = Answer(dbg, req, DBG_OK, <<0, 0>>)
              /\ UNCHANGED <<mem, hook_calls>>
              /\ DriverKept
         ELSE Reject(req)
    [] req.cmd \in {CMD_RMEM32, CMD_RMEM16, CMD_RMEM8} ->
         \E dev \in DeviceReads :
           LET r == mem_map_read(mem, req.address, MemWidth(req.cmd), dev)
           IN  IF r.err THEN Reject(req) ELSE Reply(req, r.v)
    [] req.cmd \in {CMD_WMEM32, CMD_WMEM16, CMD_WMEM8} ->
         LET w == mem_map_write(mem, req.address, MemWidth(req.cmd), req.wdata)
         IN  IF w.err
             THEN Reject(req)
             ELSE /\ hook_calls' =
                       IF hook_defined
                       THEN Append(hook_calls,
                                   <<req.address, MemWidth(req.cmd), req.wdata>>)
                       ELSE hook_calls
                  /\ mem' = w.mem
                  /\ dbg' = Answer(dbg, req, DBG_OK, <<0, 0>>)
                  /\ UNCHANGED cpu
                  /\ DriverKept
    [] req.cmd = CMD_RESET ->
         /\ cpu' = dbg_reset(cpu)
         /\ dbg' = Answer(dbg, req, DBG_OK, <<0, 0>>)
         /\ UNCHANGED <<mem, hook_calls>>
         /\ DriverKept
    [] req.cmd = CMD_CACHE_SYNC -> Reply(req, <<0, 0>>)
    [] req.cmd = CMD_CPUID -> Reply(req, CpuId)
    [] req.cmd = CMD_GET_EXEC_STATUS -> Reply(req, ExecStatus(dbg.state))
    [] OTHER -> Reject(req)

\* the commands a debugger sends: every command code and one that is none,
\* register indexes 2, 7 and the invalid 8, RAM addresses 0x100 (aligned),
\* 0x101 (unaligned for 16 and 32 bits), the unmapped 0x10000 and the UART
DbgCodes ==
  {CMD_STOP, CMD_RUN, CMD_STEP, CMD_RESET, CMD_CACHE_SYNC, CMD_CPUID,
   CMD_GET_EXEC_STATUS, 15}

DbgRequests ==
  {dbg_command(c, <<0, 0>>, <<0, 0>>) : c \in DbgCodes}
    \cup {dbg_command(CMD_READ_REG, <<0, i>>, <<0, 0>>) : i \in {2, 7, 8}}
    \cup {dbg_command(CMD_WRITE_REG, <<0, 2>>, <<0, 4660>>),
          dbg_command(CMD_WRITE_REG, <<0, 7>>, <<65535, 32769>>),
          dbg_command(CMD_WRITE_REG, <<0, 8>>, <<0, 4660>>)}
    \cup {dbg_command(c, <<0, 256>>, <<0, 0>>) :
            c \in {CMD_RMEM32, CMD_RMEM16, CMD_RMEM8}}
    \cup {dbg_command(CMD_RMEM32, <<0, 257>>, <<0, 0>>),
          dbg_command(CMD_RMEM8, <<1, 0>>, <<0, 0>>),
          dbg_command(CMD_RMEM8, UART_BASE, <<0, 0>>)}
    \cup {dbg_command(c, <<0, 256>>, <<4660, 22136>>) :
            c \in {CMD_WMEM32, CMD_WMEM16, CMD_WMEM8}}
    \cup {dbg_command(CMD_WMEM16, <<0, 257>>, <<0, 4660>>),
          dbg_command(CMD_WMEM8, <<1, 0>>, <<0, 4660>>)}

\* the commands one run of the debugger may send
MaxCommands == 3

\* a program that leaves Z set: R1 := 10, the byte at 0x100 := 10,
\* R0 := R1 - 10 = 0, then a branch to itself for ever
FlagProgram ==
  <<ArithI(ARITH_ADD, 1, 1, 10), Str(LS_STR8, 2, 256, 1),
    ArithI(ARITH_SUB, 0, 1, 10), EncBranch(BRANCH_B, 0, 0)>>

\* the programs the debugger is tried on: the scenario program, one that
\* sets R1 and then branches to itself for ever, and the one that sets Z
DbgPrograms ==
  {<<ArithI(ARITH_ADD, 1, 1, 10), ArithI(ARITH_ADD, 0, 1, 5),
     Str(LS_STR8, 2, 256, 0), SIM_SUCCESS>>,
   <<ArithI(ARITH_ADD, 1, 1, 10), EncBranch(BRANCH_B, 0, 0), SIM_FAIL>>,
   FlagProgram}

InitDbg ==
  /\ cpu = new_cpu
  /\ \E prog \in DbgPrograms : mem = ram_init(prog)
  /\ hook_defined \in BOOLEAN
  /\ validate_defined = FALSE
  /\ hook_calls = <<>>
  /\ validate_calls = 0
  /\ err = SIM_CONTINUE
  /\ state = "loop"
  /\ pending = <<>>
  /\ printed = ""
  /\ exit_status = "running"
  /\ cycles = 0
  /\ dbg = new_dbg

\* a write of the CMD register, ADDRESS and WDATA being set
DbgCommand ==
  /\ state = "loop"
  /\ dbg.ncmd < MaxCommands
  /\ \E req \in DbgRequests : do_command(req)

\* the driver steps the CPU while RUNNING; a sentinel forces STOPPED
DbgDriverStep ==
  /\ dbg.state = "RUNNING"
  /\ Cycle
  /\ dbg' = IF state' = "exited" THEN [dbg EXCEPT !.state = "STOPPED"] ELSE dbg

\* the store of a step ends when the store observer returns
DbgHookReturn == HookReturn /\ UNCHANGED dbg

\* or the store observer ends the run
DbgHookErr == lua_sim_err /\ UNCHANGED dbg

\* the running program meets a breakpoint at a step boundary
DbgBreakpoint ==
  /\ state = "loop"
  /\ dbg.state = "RUNNING"
  /\ dbg' = [dbg EXCEPT !.state = "STOPPED_ON_BREAKPOINT"]
  /\ UNCHANGED <<cpu, mem, hook_calls>>
  /\ DriverKept

NextDbg ==
  DbgCommand \/ DbgDriverStep \/ DbgHookReturn \/ DbgHookErr \/ DbgBreakpoint

SpecDbg == InitDbg /\ [][NextDbg]_vars

\* ------------------------------------------------------------------------
\* Vocabulary of the properties
\* ------------------------------------------------------------------------

\* the word at PC, when the fetch of the next cpu_cycle succeeds
FetchOk == ~mem_map_read(mem, cpu.pc, 32, 0).err

Word == mem_map_read(mem, cpu.pc, 32, 0).v

\* this step is a call of cpu_cycle that fetches a word
Steps == state = "loop" /\ cycles' = cycles + 1 /\ FetchOk

\* registers, PC and flags are what they were (Next-PC is not looked at)
CpuKept ==
  /\ cpu'.regs = cpu.regs
  /\ cpu'.pc = cpu.pc
  /\ cpu'.z = cpu.z
  /\ cpu'.c = cpu.c

Zero == <<0, 0>>

\* ------------------------------------------------------------------------
\* C1  Sentinel termination.  When the word fetched at PC is 0xffffffff the
\* step returns SIM_SUCCESS, when it is 0xfffffffe it returns SIM_FAIL; in
\* both cases the loop is left, no register, PC, flag or memory byte changes,
\* data_write_hook is not called, die is not reached, and Next-PC is PC + 4.
\* ------------------------------------------------------------------------
C1_SentinelTermination ==
  [][(Steps /\ Word \in {<<65535, 65535>>, <<65535, 65534>>}) =>
       /\ state' = "exited"
       /\ err' = Word
       /\ (Word = <<65535, 65535>> => err' = SIM_SUCCESS)
       /\ (Word = <<65535, 65534>> => err' = SIM_FAIL)
       /\ CpuKept
       /\ mem' = mem
       /\ hook_calls' = hook_calls
       /\ cpu'.next_pc = Add32(cpu.pc, <<0, 4>>)]_vars

\* a sentinel has been fetched by a CPU whose registers, Z flag, memory and
\* observer log the program has changed before
C1_Witness ==
  /\ state = "exited"
  /\ err = SIM_FAIL
  /\ cpu.regs[1] # Zero
  /\ cpu.z = 1
  /\ cpu.pc # Zero
  /\ hook_calls # <<>>

\* ------------------------------------------------------------------------
\* C2  Flag law.  After a step that executes an arithmetic instruction other
\* than MOVHI, Z is 1 exactly when the destination register now holds 0.
\* ------------------------------------------------------------------------
C2_FlagLaw ==
  [][(/\ Steps
      /\ Word \notin {<<65535, 65535>>, <<65535, 65534>>}
      /\ instr_class(Word) = 0
      /\ arith_opc(Word) # 10
      /\ state' = "loop") =>
       cpu'.z = (IF cpu'.regs[instr_rd(Word)] = Zero THEN 1 ELSE 0)]_vars

\* the word before PC is SUB R2 := R1 - R1 in register mode, R1 is not 0, and
\* the step has set Z for the zero it wrote to R2
C2_Witness ==
  /\ state = "loop"
  /\ cpu.pc = <<0, 8>>
  /\ RamLoad(mem, 4, 32) = ArithR(ARITH_SUB, 2, 1, 1)
  /\ cpu.regs[1] # Zero
  /\ cpu.regs[2] = Zero
  /\ cpu.z = 1

\* ------------------------------------------------------------------------
\* C3  Branch sign-extension.  A taken PC-relative branch (B, or BEQ with Z
\* set) with 24-bit immediate n sets Next-PC and PC to PC + 4n when
\* n < 2^23 and to PC - 4 * (2^24 - n) otherwise, modulo 2^32, PC being the
\* address of the branch; with n = 0xFFFFFF that is PC - 4.
\* ------------------------------------------------------------------------
Imm24Of(instr) == (instr[1] % 256) * Half + instr[2]

\* C3: a taken PC-relative branch lands at PC + 4 * (signed 24-bit immediate)
C3_BranchSignExtension ==
  [][(/\ Steps
      /\ instr_class(Word) = 1
      /\ ~Bit25(Word)
      /\ \/ branch_opc(Word) = 4
         \/ branch_opc(Word) = 6 /\ cpu.z = 1) =>
       /\ state' = "loop"
       /\ cpu'.next_pc =
            IF Imm24Of(Word) >= 8388608
            THEN Sub32(cpu.pc, U32(4 * (16777216 - Imm24Of(Word))))
            ELSE Add32(cpu.pc, U32(4 * Imm24Of(Word)))
       /\ cpu'.pc = cpu'.next_pc
       /\ (Imm24Of(Word) = 16777215 => cpu'.pc = Sub32(cpu.pc, <<0, 4>>))]_vars

\* the B with immediate 0xFFFFFF at address 4 has been taken: PC is 0 again
C3_Witness ==
  /\ state = "loop"
  /\ cycles = 2
  /\ RamLoad(mem, 4, 32) = EncBranch(BRANCH_B, 0, 16777215)
  /\ cpu.pc = Zero
  /\ cpu.next_pc = Zero

\* ------------------------------------------------------------------------
\* C4  Register-indirect branch.  A taken branch whose bit 25 is set sets
\* Next-PC to the value held in the register named by bits[2:0].
\* ------------------------------------------------------------------------
C4_RegisterIndirectBranch ==
  [][(/\ Steps
      /\ instr_class(Word) = 1
      /\ Bit25(Word)
      /\ \/ branch_opc(Word) = 4
         \/ branch_opc(Word) = 6 /\ cpu.z = 1) =>
       cpu'.next_pc = cpu.regs[instr_rb(Word)]]_vars

\* ------------------------------------------------------------------------
\* C5  End-to-end scenario.  The ROM is [ADD R1 := R1 + 10] followed by the
\* program [ADD R0 := R1 + 5; STR8 [R2 + 0x100] := R0; SUCCESS] at address 4.
\* After the first cycle the CPU is zeroed but for R1 = 10, with PC at the
\* program.  From there the run makes exactly two executing cycles and one
\* terminal cycle, ends in success with R0 = 15 and the byte at 0x100 = 15,
\* and data_write_hook, if defined, was called exactly once, with
\* (0x100, 8, 15).  Nothing in the program ends the run early: the run can
\* stop short of its end only where the script itself calls sim.err, inside
\* that one call of data_write_hook or inside validate_result after the
\* success was printed.
\* ------------------------------------------------------------------------
ScenarioProgram ==
  <<ArithI(ARITH_ADD, 1, 1, 10), ArithI(ARITH_ADD, 0, 1, 5),
    Str(LS_STR8, 2, 256, 0), SIM_SUCCESS>>

ScenarioLoaded ==
  \A a \in 0..19 : RamByte(mem, a) = RamByte(ram_init(ScenarioProgram), a)

\* the one call the scenario makes of data_write_hook
ScenarioHookCall == <<(<<0, 256>>), 8, (<<0, 15>>)>>

\* the script has ended the run by sim.err inside the scenario's one call of
\* data_write_hook: the store is not committed
ScenarioHookErr ==
  /\ state = "died"
  /\ cycles = 3
  /\ hook_defined
  /\ hook_calls = <<ScenarioHookCall>>
  /\ cpu.regs[0] = <<0, 15>>
  /\ cpu.pc = <<0, 8>>
  /\ RamByte(mem, 256) = 0
  /\ printed = ""

\* the script has ended the run by sim.err inside validate_result, which
\* main called after the scenario's success was printed
ScenarioValidateErr ==
  /\ state = "died"
  /\ cycles = 4
  /\ validate_defined
  /\ validate_calls = 1
  /\ printed = "SUCCESS"

\* C5: the course and the result of the scenario run
C5_EndToEnd ==
  ScenarioLoaded =>
    /\ state # "aborted"
    /\ (state = "died" => ScenarioHookErr \/ ScenarioValidateErr)
    /\ cycles <= 4
    /\ (cycles = 1 =>
          /\ state = "loop"
          /\ cpu.pc = <<0, 4>>
          /\ cpu.regs = [r \in Regs |-> IF r = 1 THEN <<0, 10>> ELSE Zero]
          /\ cpu.z = 0
          /\ cpu.c = 0
          /\ hook_calls = <<>>
          /\ DOMAIN mem \subseteq 0..15)
    /\ (cycles \in {2, 3} =>
          /\ state \in {"loop", "in_hook", "died"}
          /\ err = SIM_CONTINUE)
    /\ (cycles = 4 \/ state \in {"exited", "in_validate", "done"} =>
          /\ cycles = 4
          /\ state \in {"exited", "in_validate", "done", "died"}
          /\ err = SIM_SUCCESS
          /\ cpu.regs[0] = <<0, 15>>
          /\ RamByte(mem, 256) = 15
          /\ hook_calls = IF hook_defined THEN <<ScenarioHookCall>> ELSE <<>>)
    /\ (state \in {"in_validate", "done"} => printed = "SUCCESS")
    /\ (state = "done" => exit_status = "EXIT_SUCCESS")

\* the scenario has run to its end under a script that defines the observer
C5_Witness ==
  /\ ScenarioLoaded
  /\ state = "done"
  /\ hook_defined
  /\ Len(hook_calls) = 1
  /\ RamByte(mem, 256) = 15

\* ------------------------------------------------------------------------
\* C6  Arithmetic opcode set.  Each of the opcodes 0x0..0xa executes without
\* a fatal error and writes the destination register; exactly the opcodes
\* 0xb..0xf end in the fatal decode error.
\* ------------------------------------------------------------------------
C6_ArithmeticOpcodeSet ==
  [][(/\ Steps
      /\ Word \notin {<<65535, 65535>>, <<65535, 65534>>}
      /\ instr_class(Word) = 0) =>
       /\ (arith_opc(Word) \in 0..10 => state' = "loop")
       /\ (arith_opc(Word) \in 11..15 => state' = "died")
       /\ (state' = "loop" =>
             \E ub \in ShiftUB :
               cpu'.regs[instr_rd(Word)] = ArithResult(cpu, Word, ub))]_vars

\* ------------------------------------------------------------------------
\* C7  Execution driver.  main calls cpu_cycle while it returns
\* SIM_CONTINUE and makes no cycle after the first terminal outcome; the
\* terminal outcome is the sentinel at PC; main prints and returns success
\* exactly for SIM_SUCCESS; validate_result (when the script defines it) is
\* called exactly once, after a success outcome has been reported, and never
\* after a failure or before the terminal outcome.  main returns when
\* validate_result returns; a validate_result that calls sim.err ends the
\* run in die() after the success line, with no second call.
\* ------------------------------------------------------------------------
C7_DriverState ==
  /\ (state = "loop" => err = SIM_CONTINUE)
  /\ (state \in {"exited", "in_validate", "done"} \/ printed # "" =>
        /\ err \in {<<65535, 65535>>, <<65535, 65534>>}
        /\ FetchOk
        /\ Word = err)
  /\ (state \in {"in_validate", "done"} \/ printed # "" =>
        /\ state \in {"in_validate", "done", "died"}
        /\ printed = (IF err = <<65535, 65535>> THEN "SUCCESS" ELSE "FAIL"))
  /\ (state = "done" =>
        exit_status =
          (IF err = <<65535, 65535>> THEN "EXIT_SUCCESS" ELSE "EXIT_FAILURE"))
  /\ (state # "done" => exit_status = "running")
  /\ (state = "in_validate" \/ (state = "died" /\ printed # "") =>
        validate_defined /\ printed = "SUCCESS")
  /\ validate_calls =
       (IF printed = "SUCCESS" /\ validate_defined THEN 1 ELSE 0)

C7_LoopStep ==
  /\ (state \in {"loop", "in_hook"} /\ state' \in {"loop", "exited"} =>
        (state' = "loop") = (err' = <<0, 0>>))
  /\ (state' = "exited" => state = "loop" /\ cycles' = cycles + 1)
  /\ (state \in {"exited", "in_validate", "done"} =>
        /\ cycles' = cycles
        /\ cpu' = cpu
        /\ mem' = mem
        /\ hook_calls' = hook_calls
        /\ err' = err
        /\ state' \in (IF state = "exited" THEN {"in_validate", "done"}
                       ELSE {"done", "died"}))
  /\ (printed' # printed \/ validate_calls' # validate_calls =>
        state = "exited")
  /\ (state = "exited" =>
        (state' = "in_validate") = (err = <<65535, 65535>> /\ validate_defined))

\* C7: the driver's state law in every state, the loop law in every step
C7_ExecutionDriver == []C7_DriverState /\ [][C7_LoopStep]_vars

\* main has returned success after the callback, following executed cycles
C7_Witness ==
  /\ state = "done"
  /\ validate_defined
  /\ validate_calls = 1
  /\ exit_status = "EXIT_SUCCESS"
  /\ cycles >= 3

\* ------------------------------------------------------------------------
\* C8  Load/store effective address.  For LDR8 and STR8 the effective
\* address is PC + the 16-bit immediate sign-extended when bit 9 is set, and
\* register operand A + the 16-bit immediate zero-extended when it is clear,
\* both modulo 2^32.  The address is the one handed to data_write_hook and
\* to the memory: a store writes that byte (or dies when the address is not
\* writable, or when data_write_hook calls sim.err), a load reads that byte
\* (or dies when it is not readable).
\* ------------------------------------------------------------------------
Imm16Of(instr) == (instr[1] % 1024) * 64 + (instr[2] \div 1024)

EffectiveAddress(instr) ==
  IF (instr[2] \div 512) % 2 = 1
  THEN IF Imm16Of(instr) >= 32768
       THEN Sub32(cpu.pc, U32(65536 - Imm16Of(instr)))
       ELSE Add32(cpu.pc, U32(Imm16Of(instr)))
  ELSE Add32(cpu.regs[(instr[2] \div 8) % 8], U32(Imm16Of(instr)))

StoredByte(instr) == cpu.regs[instr[2] % 8][2] % 256

IsLdr8(instr) == instr_class(instr) = 2 /\ ls_opc(instr) = 2

IsStr8(instr) == instr_class(instr) = 2 /\ ls_opc(instr) = 6

C8_Store ==
  (Steps /\ IsStr8(Word)) =>
    LET ea == EffectiveAddress(Word)
        w == mem_map_write(mem, ea, 8, <<0, StoredByte(Word)>>)
    IN  IF hook_defined
        THEN /\ state' = "in_hook"
             /\ hook_calls' = Append(hook_calls, <<ea, 8, <<0, StoredByte(Word)>>>>)
             /\ pending' = <<ea, 8, <<0, StoredByte(Word)>>>>
        ELSE IF w.err THEN state' = "died" /\ mem' = mem
             ELSE state' = "loop" /\ mem' = w.mem

C8_StoreCommit ==
  state = "in_hook" =>
    LET w == mem_map_write(mem, pending[1], 8, pending[3])
    IN  IF w.err \/ state' = "died" THEN state' = "died" /\ mem' = mem
        ELSE state' = "loop" /\ mem' = w.mem

C8_Load ==
  (Steps /\ IsLdr8(Word)) =>
    LET ea == EffectiveAddress(Word)
    IN  IF mem_map_read(mem, ea, 8, 0).err
        THEN state' = "died" /\ cpu'.regs = cpu.regs
        ELSE /\ state' = "loop"
             /\ \E dev \in DeviceReads :
                  cpu'.regs[instr_rd(Word)] =
                    <<0, mem_map_read(mem, ea, 8, dev).v[2] % 256>>

\* C8: every store, store commit and load uses the effective address
C8_EffectiveAddress == [][C8_Store /\ C8_StoreCommit /\ C8_Load]_vars

\* base+offset with immediate 0xFFFF has stored R1's byte 65535 bytes above
\* R2 = 0, and the observer was given that address
C8_Witness ==
  /\ state = "loop"
  /\ cpu.regs[2] = Zero
  /\ Len(hook_calls) = 1
  /\ hook_calls[1][1] = <<0, 65535>>
  /\ RamByte(mem, 65535) = 10
  /\ RamLoad(mem, cpu.pc[2] - 4, 32) = Str(LS_STR8, 2, 65535, 1)

\* ------------------------------------------------------------------------
\* C9  Store observer ordering.  With data_write_hook defined, every store
\* instruction calls it exactly once, with (effective address, 8, byte
\* stored), while the memory still holds the old content; memory changes
\* only on the return of that call, by exactly that write (an observer that
\* calls sim.err does not return: the run dies with the memory unchanged);
\* and the observer is called by nothing but a store instruction.
\* ------------------------------------------------------------------------
C9_InHook ==
  state = "in_hook" =>
    /\ hook_defined
    /\ hook_calls # <<>>
    /\ pending = hook_calls[Len(hook_calls)]

C9_Step ==
  /\ (Steps /\ IsStr8(Word) /\ hook_defined =>
        /\ hook_calls' =
             Append(hook_calls,
                    <<EffectiveAddress(Word), 8, <<0, StoredByte(Word)>>>>)
        /\ mem' = mem
        /\ state' = "in_hook")
  /\ (hook_calls' # hook_calls =>
        /\ Steps
        /\ IsStr8(Word)
        /\ Len(hook_calls') = Len(hook_calls) + 1)
  /\ (mem' # mem /\ hook_defined =>
        /\ state = "in_hook"
        /\ hook_calls' = hook_calls
        /\ InRam(pending[1], 8)
        /\ mem' = RamStore(mem, pending[1][2], pending[3][2]))
  /\ (state = "in_hook" =>
        /\ hook_calls' = hook_calls
        /\ state' \in (IF InRam(pending[1], 8) \/ InUart(pending[1], 8)
                       THEN {"loop", "died"} ELSE {"died"})
        /\ (state' = "died" => mem' = mem)
        /\ (state' = "loop" /\ InRam(pending[1], 8) =>
              RamByte(mem', pending[1][2]) = pending[3][2]))

\* C9: the observer is called once per store, before the memory changes
C9_StoreObserverOrdering == []C9_InHook /\ [][C9_Step]_vars

\* inside the observer: it has been given the write, the byte differs from
\* what the memory still holds
C9_Witness ==
  /\ state = "in_hook"
  /\ InRam(pending[1], 8)
  /\ pending[3] = <<0, 15>>
  /\ RamByte(mem, pending[1][2]) = 0

\* ------------------------------------------------------------------------
\* C10  Fatal decode errors.  A fetched word that is no sentinel and is of
\* class 3, or a branch other than B and BEQ, or a load/store other than
\* LDR8 and STR8, ends the run in die(): no register, flag, PC or memory
\* byte changes, data_write_hook is not called, and nothing runs afterwards.
\* ------------------------------------------------------------------------
C10_Undecodable(instr) ==
  /\ instr \notin {<<65535, 65535>>, <<65535, 65534>>}
  /\ \/ instr_class(instr) = 3
     \/ instr_class(instr) = 1 /\ branch_opc(instr) \notin {4, 6}
     \/ instr_class(instr) = 2 /\ ls_opc(instr) \notin {2, 6}

C10_Step ==
  /\ (Steps /\ C10_Undecodable(Word) =>
        /\ state' = "died"
        /\ CpuKept
        /\ mem' = mem
        /\ hook_calls' = hook_calls
        /\ validate_calls' = validate_calls)
  /\ state # "died"

\* C10: an undecodable word ends the run in die() with nothing changed
C10_FatalDecodeErrors == [][C10_Step]_vars

\* the run has died on BNE after the program had set registers and Z
C10_Witness ==
  /\ state = "died"
  /\ FetchOk
  /\ Word = EncBranch(BRANCH_BNE, 0, 2)
  /\ cpu.pc = <<0, 8>>
  /\ cpu.z = 1
  /\ cpu.regs[1] # Zero

\* ------------------------------------------------------------------------
\* Vocabulary of the debug properties (specification SpecDbg)
\* ------------------------------------------------------------------------

\* this step is the write of CMD: one more command is taken from the window
Commands == dbg'.ncmd = dbg.ncmd + 1

\* this step gives exactly one response
OneResponse == dbg'.nresp = dbg.nresp + 1

\* ------------------------------------------------------------------------
\* C11  State-gated rejection.  While the execution state is RUNNING, each
\* of READ_REG, WRITE_REG, RMEM32/16/8 and WMEM32/16/8 is answered by
\* exactly one response whose status is not 0; registers, PC, flags, memory
\* and the execution state stay as they were, the store observer is not
\* called, and the simulator neither dies nor aborts.
\* ------------------------------------------------------------------------

C11_Step ==
  (Commands /\ dbg.state = "RUNNING" /\ dbg'.req.cmd \in 3..10)
    => /\ OneResponse
       /\ dbg'.resp.status # 0
       /\ cpu' = cpu
       /\ mem' = mem
       /\ hook_calls' = hook_calls
       /\ dbg'.state = "RUNNING"
       /\ state' = "loop"

\* C11: a register or memory command issued while RUNNING is rejected with
\* a nonzero status and changes nothing.
C11_StateGatedRejection == [][C11_Step]_vars

\* READ_REG of R1 was rejected while the program had already run
C11_Witness ==
  /\ dbg.req.cmd = CMD_READ_REG
  /\ dbg.before = "RUNNING"
  /\ dbg.state = "RUNNING"
  /\ dbg.resp.status # 0
  /\ cycles > 0
  /\ cpu.regs[1] = <<0, 10>>

\* ------------------------------------------------------------------------
\* C12  Reset idempotence.  In every execution state and whatever the
\* registers, PC and flags hold, CMD_RESET leaves the eight registers, PC,
\* Z and C at 0 and every memory byte as it was; a second CMD_RESET right
\* after the first changes nothing at all.
\* ------------------------------------------------------------------------

\* the previous command was a RESET served while stopped, and execution has
\* been stopped since: nothing has happened after it
JustReset ==
  /\ dbg.req.cmd = 11
  /\ dbg.before # "RUNNING"
  /\ dbg.state = dbg.before

C12_Step ==
  (Commands /\ dbg'.req.cmd = 11)
    => /\ \A r \in 0..7 : cpu'.regs[r] = <<0, 0>>
       /\ cpu'.pc = <<0, 0>>
       /\ cpu'.z = 0
       /\ cpu'.c = 0
       /\ mem' = mem
       /\ JustReset => (cpu' = cpu /\ dbg'.state = dbg.state /\ state' = state)

\* C12: CMD_RESET zeroes registers, PC and flags, keeps memory, and is
\* idempotent.
C12_ResetIdempotence == [][C12_Step]_vars

\* a RESET of a CPU that held Z = 1, R1 = 10 and PC = 12: FlagProgram was
\* started by RUN, ran its three instructions and the branch, and RESET was
\* the second command, so no earlier RESET or WRITE_REG came between; the
\* CPU is zero again, Z included, and the byte stored at 0x100 is still there
C12_Witness ==
  /\ mem = RamStore(ram_init(FlagProgram), 256, 10)
  /\ dbg.req.cmd = CMD_RESET
  /\ dbg.resp.status = 0
  /\ dbg.ncmd = 2
  /\ dbg.before = "RUNNING"
  /\ cycles = 4
  /\ cpu.z = 0
  /\ cpu.pc = <<0, 0>>
  /\ \A r \in Regs : cpu.regs[r] = <<0, 0>>

\* ------------------------------------------------------------------------
\* C13  Protocol round-trip.  While execution is STOPPED, READ_REG of
\* register i served right after WRITE_REG of v to register i (i in 0..7)
\* answers status 0 and data v; WRITE_REG(2, 0x1234) then READ_REG(2)
\* answers 0x1234.
\* ------------------------------------------------------------------------

C13_Step ==
  (/\ dbg.req.cmd = 4
   /\ dbg.before = "STOPPED"
   /\ dbg.state = "STOPPED"
   /\ dbg.req.address[1] = 0
   /\ dbg.req.address[2] \in 0..7
   /\ Commands
   /\ dbg'.req.cmd = 3
   /\ dbg'.req.address = dbg.req.address)
    => /\ OneResponse
       /\ dbg'.resp.status = 0
       /\ dbg'.resp.data = dbg.req.wdata

\* C13: a register written through the window reads back the same value.
C13_ProtocolRoundTrip == [][C13_Step]_vars

\* READ_REG(2) has answered 0x1234, which only WRITE_REG(2, 0x1234) puts
\* into R2
C13_Witness ==
  /\ dbg.req.cmd = CMD_READ_REG
  /\ dbg.req.address = <<0, 2>>
  /\ dbg.before = "STOPPED"
  /\ dbg.resp = dbg_response(0, <<0, 4660>>)
  /\ dbg.ncmd >= 2

\* ------------------------------------------------------------------------
\* C14  PC sequencing.  After every step that neither ends the run nor
\* aborts, PC is the Next-PC of that step: the target of the branch when the
\* instruction is B, or BEQ with Z set before the step, and the old PC + 4
\* in every other case.  The target is the one emul_branch computes
\* (BranchTarget); a store that waits for data_write_hook has Next-PC set
\* and takes it as PC when the hook has returned.
\* ------------------------------------------------------------------------

C14_Taken ==
  /\ instr_class(Word) = 1
  /\ \/ branch_opc(Word) = 4
     \/ branch_opc(Word) = 6 /\ cpu.z = 1

C14_NextPc ==
  IF C14_Taken THEN BranchTarget(cpu, Word) ELSE Add32(cpu.pc, <<0, 4>>)

C14_Step ==
  /\ (Steps /\ state' = "loop")
       => (cpu'.next_pc = C14_NextPc /\ cpu'.pc = C14_NextPc)
  /\ (Steps /\ state' = "in_hook")
       => (cpu'.next_pc = C14_NextPc /\ cpu'.pc = cpu.pc)
  /\ (state = "in_hook" /\ state' = "loop")
       => (cpu'.next_pc = cpu.next_pc /\ cpu'.pc = cpu.next_pc)

\* C14: the new PC of a step is its Next-PC, the branch target for a taken
\* B or BEQ and PC + 4 otherwise.
C14_PcSequencing == [][C14_Step]_vars

\* the first word is a BEQ to PC + 8 and Z was clear: PC is 4
C14_Witness ==
  /\ state = "loop"
  /\ cycles = 1
  /\ RamLoad(mem, 0, 32) = EncBranch(BRANCH_BEQ, 0, 2)
  /\ cpu.z = 0
  /\ cpu.pc = <<0, 4>>
  /\ cpu.next_pc = <<0, 4>>

\* ------------------------------------------------------------------------
\* C15  Arithmetic second operand.  An arithmetic instruction that executes
\* computes its result from the value of register operand A and a second
\* operand that is the value of register operand B when bit 9 is set, and
\* otherwise bits[25:10] as an unsigned number (0xFFFF is 65535).  Shifts
\* and BIC are looked at for second operands below 32, where C defines
\* them; MOVHI has no first operand.
\* ------------------------------------------------------------------------

C15_A == cpu.regs[instr_ra(Word)]

C15_Op2 ==
  IF (Word[2] \div 512) % 2 = 1
  THEN cpu.regs[instr_rb(Word)]
  ELSE <<0, Imm16Of(Word)>>

C15_Small == C15_Op2[1] = 0 /\ C15_Op2[2] < 32

\* d is what the opcode makes of the two operands
C15_ResultIs(d) ==
  CASE arith_opc(Word) = ARITH_ADD -> d = Add32(C15_A, C15_Op2)
    [] arith_opc(Word) = ARITH_SUB -> d = Sub32(C15_A, C15_Op2)
    [] arith_opc(Word) = ARITH_LSL ->
         C15_Small => d = Shl32(C15_A, C15_Op2[2])
    [] arith_opc(Word) = ARITH_LSR ->
         C15_Small => d = Shr32(C15_A, C15_Op2[2])
    [] arith_opc(Word) = ARITH_AND -> d = And32(C15_A, C15_Op2)
    [] arith_opc(Word) = ARITH_XOR -> d = Xor32(C15_A, C15_Op2)
    [] arith_opc(Word) = ARITH_BIC ->
         C15_Small => d = And32(C15_A, Not32(Shl32(<<0, 1>>, C15_Op2[2])))
    [] arith_opc(Word) = ARITH_OR -> d = Or32(C15_A, C15_Op2)
    [] arith_opc(Word) = ARITH_MOVHI -> d = <<C15_Op2[2], 0>>
    [] OTHER -> TRUE

C15_Step ==
  (Steps /\ instr_class(Word) = 0 /\ state' = "loop")
    => C15_ResultIs(cpu'.regs[instr_rd(Word)])

\* C15: the second operand is register B's value when bit 9 is set, else
\* the zero-extended 16-bit immediate; the first is register A's value.
C15_ArithmeticSecondOperand == [][C15_Step]_vars

\* ADD R2 := R2 + 0xFFFF on the zeroed CPU has made R2 65535, not -1
C15_Witness ==
  /\ state = "loop"
  /\ cycles = 1
  /\ RamLoad(mem, 0, 32) = ArithI(ARITH_ADD, 2, 2, 65535)
  /\ cpu.regs[2] = <<0, 65535>>

\* ------------------------------------------------------------------------
\* C16  LDR8 zero-extension.  After an LDR8 that has executed, the
\* destination register holds a value in 0..255 (bits 31..8 are 0); when the
\* effective address is in RAM it is the byte that RAM holds there, also
\* when that byte has bit 7 set; and the memory is what it was.
\* ------------------------------------------------------------------------

C16_Step ==
  (Steps /\ IsLdr8(Word) /\ state' = "loop")
    => LET ea == EffectiveAddress(Word)
           d == cpu'.regs[(Word[2] \div 64) % 8]
       IN  /\ d[1] = 0
           /\ d[2] \in 0..255
           /\ (ea[1] = 0) => (d[2] = RamByte(mem, ea[2]))
           /\ mem' = mem

\* C16: LDR8 zero-extends the byte read into the destination register and
\* changes no memory byte.
C16_Ldr8ZeroExtension == [][C16_Step]_vars

\* LDR8 R1 := [PC + 3] at address 0 has read the top byte of its own word,
\* which has bit 7 set: R1 holds that byte and nothing above it
C16_Witness ==
  /\ state = "loop"
  /\ cycles = 1
  /\ RamLoad(mem, 0, 32) = LdrPc(LS_LDR8, 1, 3)
  /\ RamByte(mem, 3) >= 128
  /\ cpu.regs[1] = <<0, RamByte(mem, 3)>>

\* ------------------------------------------------------------------------
\* C17  MOVHI.  A MOVHI step sets the destination register to the second
\* operand shifted left by 16 (the low half of the operand becomes the high
\* half of the result, the low half of the result is 0), whatever register
\* operand A holds, and Z and C are what they were before the step, also
\* when 0 is written or Z does not fit the new value.
\* ------------------------------------------------------------------------

C17_Step ==
  (Steps /\ instr_class(Word) = 0 /\ arith_opc(Word) = 10 /\ state' = "loop")
    => /\ cpu'.regs[(Word[2] \div 64) % 8] = <<C15_Op2[2], 0>>
       /\ cpu'.z = cpu.z
       /\ cpu'.c = cpu.c

\* C17: MOVHI writes operand 2 << 16, does not read register A and leaves
\* the flags alone.
C17_Movhi == [][C17_Step]_vars

\* after ADD R1 := R1 + 10, MOVHI R1 := 0 has written 0 over R1 = 10 and
\* Z is still clear
C17_Witness ==
  /\ state = "loop"
  /\ cycles = 2
  /\ RamLoad(mem, 0, 32) = ArithI(ARITH_ADD, 1, 1, 10)
  /\ RamLoad(mem, 4, 32) = ArithI(ARITH_MOVHI, 1, 1, 0)
  /\ cpu.pc = <<0, 8>>
  /\ cpu.regs[1] = <<0, 0>>
  /\ cpu.z = 0

\* ------------------------------------------------------------------------
\* C18  BIC single-bit clear.  For a second operand n in 0..31, BIC sets the
\* destination register to the value of register operand A with bit n at 0
\* and the other 31 bits as they are in A; it does not clear the bits that
\* are set in n.
\* ------------------------------------------------------------------------

\* bit n of the 16-bit half h
C18_HalfBit(h, n) == (h \div (2 ^ n)) % 2

\* a with bit n cleared
C18_ClearBit(a, n) ==
  IF n < 16
  THEN <<a[1], a[2] - C18_HalfBit(a[2], n) * (2 ^ n)>>
  ELSE <<a[1] - C18_HalfBit(a[1], n - 16) * (2 ^ (n - 16)), a[2]>>

C18_Step ==
  (/\ Steps
   /\ instr_class(Word) = 0
   /\ arith_opc(Word) = 8
   /\ C15_Small
   /\ state' = "loop")
    => cpu'.regs[(Word[2] \div 64) % 8] = C18_ClearBit(C15_A, C15_Op2[2])

\* C18: BIC clears the one bit numbered by the second operand.
C18_BicSingleBit == [][C18_Step]_vars

\* after ADD R1 := R1 + 10, BIC R1 := R1, 3 has cleared bit 3 of 10: R1 is
\* 2 (clearing the bits of the mask 3 would have left 8)
C18_Witness ==
  /\ state = "loop"
  /\ cycles = 2
  /\ RamLoad(mem, 0, 32) = ArithI(ARITH_ADD, 1, 1, 10)
  /\ RamLoad(mem, 4, 32) = ArithI(ARITH_BIC, 1, 1, 3)
  /\ cpu.pc = <<0, 8>>
  /\ cpu.regs[1] = <<0, 2>>

\* ------------------------------------------------------------------------
\* C19  The carry flag.  C is 0 in every state of a run that starts from
\* the zeroed CPU, and the next step would come out the same with C set:
\* cpu_cycle gives the same outcome, but for C itself, from the current
\* state with C = 1.
\* ------------------------------------------------------------------------

C19_CarryNotRead ==
  \A ub \in ShiftUB, dev \in DeviceReads :
    LET r == cpu_cycle(cpu, mem, ub, dev)
    IN  cpu_cycle([cpu EXCEPT !.c = 1], mem, ub, dev) = [r EXCEPT !.cpu.c = 1]

\* C19: C stays 0; no instruction writes it and none reads it.
C19_CarryFlag == cpu.c = 0 /\ C19_CarryNotRead

\* after SUB R1 := R1 - 1 has borrowed, ADD R1 := R1 + R1 has wrapped:
\* R1 is 0xFFFFFFFE and C is 0
C19_Witness ==
  /\ state = "loop"
  /\ cycles = 2
  /\ RamLoad(mem, 0, 32) = ArithI(ARITH_SUB, 1, 1, 1)
  /\ RamLoad(mem, 4, 32) = ArithR(ARITH_ADD, 1, 1, 1)
  /\ cpu.regs[1] = <<65535, 65534>>
  /\ cpu.c = 0

\* ------------------------------------------------------------------------
\* C20  Frame of the branch, STR8 and LDR8 steps.  A B or BEQ step, taken
\* or not, leaves registers, flags and memory alone and calls no observer.
\* A STR8 step leaves registers and flags alone, and of the memory it
\* changes at most the byte at the effective address, which then holds the
\* low byte of the source register (also when the write waits for
\* data_write_hook).  An LDR8 step leaves every register but its
\* destination, both flags and the memory alone.
\* ------------------------------------------------------------------------

\* the memory differs from the old one at most in the byte at RAM offset a
C20_OnlyByte(a) ==
  \A x \in (DOMAIN mem \cup DOMAIN mem') \ {a} : RamByte(mem', x) = RamByte(mem, x)

C20_RegsFlagsKept ==
  /\ cpu'.regs = cpu.regs
  /\ cpu'.z = cpu.z
  /\ cpu'.c = cpu.c

C20_Branch ==
  (Steps /\ instr_class(Word) = 1 /\ branch_opc(Word) \in {4, 6})
    => /\ state' = "loop"
       /\ C20_RegsFlagsKept
       /\ mem' = mem
       /\ hook_calls' = hook_calls

C20_Str8 ==
  (Steps /\ IsStr8(Word))
    => /\ C20_RegsFlagsKept
       /\ IF state' = "loop"
          THEN /\ C20_OnlyByte(EffectiveAddress(Word)[2])
               /\ EffectiveAddress(Word)[1] = 0 =>
                    RamByte(mem', EffectiveAddress(Word)[2]) = StoredByte(Word)
          ELSE mem' = mem

C20_Str8Commit ==
  state = "in_hook"
    => /\ C20_RegsFlagsKept
       /\ IF state' = "loop"
          THEN /\ C20_OnlyByte(pending[1][2])
               /\ pending[1][1] = 0 => RamByte(mem', pending[1][2]) = pending[3][2]
          ELSE mem' = mem

C20_Ldr8 ==
  (Steps /\ IsLdr8(Word))
    => /\ \A r \in (0..7) \ {(Word[2] \div 64) % 8} : cpu'.regs[r] = cpu.regs[r]
       /\ cpu'.z = cpu.z
       /\ cpu'.c = cpu.c
       /\ mem' = mem
       /\ hook_calls' = hook_calls

C20_Step == C20_Branch /\ C20_Str8 /\ C20_Str8Commit /\ C20_Ldr8

\* C20: branch, STR8 and LDR8 steps change nothing but what they are for.
C20_Frame == [][C20_Step]_vars

\* after ADD R0 := R1 + 5 has left Z clear, LDR8 R4 := [R2 + 0x100] has
\* loaded the byte 0: R4 is 0 and Z is still clear, R0 is still 5
C20_Witness ==
  /\ state = "loop"
  /\ cycles = 2
  /\ RamLoad(mem, 0, 32) = ArithI(ARITH_ADD, 0, 1, 5)
  /\ RamLoad(mem, 4, 32) = Ldr(LS_LDR8, 4, 2, 256)
  /\ cpu.pc = <<0, 8>>
  /\ cpu.regs[4] = <<0, 0>>
  /\ cpu.regs[0] = <<0, 5>>
  /\ cpu.z = 0

====
